---- MODULE Spec2Model ----
(***************************************************************************)
(* Model of textual_progress/task.py: the leaf tracker Task and the        *)
(* aggregating container Tasks; of widgets/spinner.py: the Spinner that    *)
(* animates while its Task is unfinished; and of scripts/run.py: the       *)
(* AppRunner that restarts the app when a source file changes.             *)
(*                                                                         *)
(* Task.completed and Task.total are Textual reactives: an assignment      *)
(* stores the value and runs watch_<name> synchronously, but only when the *)
(* new value differs from the stored one.  The lifecycle state of a Task   *)
(* is the set of CSS classes it carries.  Optional values are sequences:   *)
(* <<>> is None and <<v>> is the value v.  Floats are integers where the   *)
(* code only adds and subtracts and reduced fractions <<n, d>> where it    *)
(* divides.  The clock counts seconds and starts at 1 (time() is never a   *)
(* falsy 0.0).  Tasks.mount(task) is read as making the container the      *)
(* parent of the task and old_task.remove() as clearing that parent.       *)
(***************************************************************************)
EXTENDS Integers, Sequences, FiniteSets, TLC

VARIABLES tk, agg, children, now, lastOp, ops, explicit, valid, pc, loc, snap,
          sp, loops, rn

vars == <<tk, agg, children, now, lastOp, ops, explicit, valid, pc, loc, snap,
          sp, loops, rn>>

(* ------------------------------ bounds --------------------------------- *)
\* the number of events (calls and clock ticks) in a behaviour
MaxOps == 4
\* the number of times the supervisor starts the app
MaxStarts == 2
\* the number of file changes the watcher observes
MaxChanges == 2
\* _add_sample keeps the last 999 samples and appends one; the window is
\* scaled down to 2 + 1 samples so that an eviction happens within MaxOps
SampleKeep == 2

\* the inputs: tracker slots, child keys, advance amounts, assigned values
TaskIds == {1, 2}
Keys == {"a", "b"}
Amounts == {-1, 0, 1}
Values == {0, 1, 2}
None == <<>>
Some(v) == <<v>>
Totals == {None, Some(0), Some(1), Some(2)}
StateClasses == {"pending", "active", "complete", "indeterminate", "failed"}
Producers == {1, 2}

(* ----------------------------- fractions ------------------------------- *)
RECURSIVE GCD(_, _)
GCD(a, b) == IF b = 0 THEN a ELSE GCD(b, a % b)

Abs(x) == IF x < 0 THEN -x ELSE x

\* the float n/d (d # 0) as a reduced fraction with a positive denominator
Frac(n, d) ==
    LET g == GCD(Abs(n), Abs(d))
        s == IF d < 0 THEN -1 ELSE 1
    IN  <<(s * n) \div g, (s * d) \div g>>

FZero == <<0, 1>>
FOne == <<1, 1>>
FLe(x, y) == x[1] * y[2] <= y[1] * x[2]
FMin(x, y) == IF FLe(x, y) THEN x ELSE y
FMax(x, y) == IF FLe(x, y) THEN y ELSE x
FAdd(x, y) == Frac(x[1] * y[2] + y[1] * x[2], x[2] * y[2])
FPos(x) == x[1] > 0
\* the integer r divided by the positive fraction x
FDivInt(r, x) == Frac(r * x[2], x[1])

Min2(a, b) == IF a <= b THEN a ELSE b
Max2(a, b) == IF a >= b THEN a ELSE b

(* --------------------------- Task properties --------------------------- *)
\* Task.percentage
percentage(T) ==
    IF T.total = None \/ T.total = Some(0)
    THEN None
    ELSE Some(FMin(FOne, FMax(FZero, Frac(T.completed, T.total[1]))))

\* Task.indeterminate
indeterminate(T) == T.total = None

\* Task.finished
finished(T) == "complete" \in T.classes \/ "failed" \in T.classes

\* Task.remaining
remaining(T) ==
    IF T.total = None THEN None ELSE Some(Max2(0, T.total[1] - T.completed))

\* Task.elapsed at clock value t
elapsed(T, t) ==
    IF T.start_time = None THEN None
    ELSE Some((IF T.stop_time # None THEN T.stop_time[1] ELSE t) - T.start_time[1])

\* Task._calculate_speed at clock value t
calculate_speed(T, t) ==
    IF Len(T.samples) < 2 THEN FZero
    ELSE LET cutoff == t - 1
             recent0 == SelectSeq(T.samples, LAMBDA s : s[1] >= cutoff)
             recent == IF Len(recent0) < 2 THEN T.samples ELSE recent0
             time_delta == recent[Len(recent)][1] - recent[1][1]
             progress_delta == recent[Len(recent)][2] - recent[1][2]
         IN  IF time_delta <= 0 THEN FZero ELSE Frac(progress_delta, time_delta)

\* Task.speed
speed(T, t) == calculate_speed(T, t)

\* the last n elements of a sequence (s[-n:])
LastN(s, n) == IF Len(s) <= n THEN s ELSE SubSeq(s, Len(s) - n + 1, Len(s))

\* an _add_sample that never drops a sample
add_sample_keep_all(T, c, t) ==
    [T EXCEPT !.samples = Append(T.samples, <<t, c>>)]

\* Task._add_sample
add_sample(T, c, t) ==
    [T EXCEPT !.samples = Append(LastN(T.samples, SampleKeep), <<t, c>>)]

\* a state update that marks any started determinate tracker complete
update_state_classes_no_threshold(T) ==
    LET cleared == T.classes \ StateClasses
    IN  [T EXCEPT !.classes =
            IF indeterminate(T) THEN cleared \cup {"indeterminate"}
            ELSE IF T.completed = 0 THEN cleared \cup {"pending"}
            ELSE cleared \cup {"complete"}]

\* Task._update_state_classes
update_state_classes(T) ==
    LET cleared == T.classes \ StateClasses
        pct == percentage(T)
    IN  [T EXCEPT !.classes =
            IF indeterminate(T) THEN cleared \cup {"indeterminate"}
            ELSE IF T.completed = 0 THEN cleared \cup {"pending"}
            ELSE IF pct # None /\ pct[1] # FZero /\ FLe(FOne, pct[1])
                 THEN cleared \cup {"complete"}
            ELSE cleared \cup {"active"}]

(* ------------------------- Tasks aggregation --------------------------- *)
\* the trackers in the child map, in insertion order (list(self._children.values()))
ChildList(ch) == [i \in 1..Len(ch) |-> ch[i].task]

RECURSIVE SumSeq(_)
SumSeq(s) == IF s = <<>> THEN 0 ELSE s[1] + SumSeq(Tail(s))

RECURSIVE FSumSeq(_)
FSumSeq(s) == IF s = <<>> THEN FZero ELSE FAdd(s[1], FSumSeq(Tail(s)))

RECURSIVE MinSeq(_)
MinSeq(s) == IF Len(s) = 1 THEN s[1] ELSE Min2(s[1], MinSeq(Tail(s)))

\* a recompute whose sum misses the last child
SumCompleted_skip_last(T, cl) ==
    SumSeq([i \in 1..(Len(cl) - 1) |-> T[cl[i]].completed])

\* sum(child.completed for child in children)
SumCompleted(T, cl) == SumSeq([i \in 1..Len(cl) |-> T[cl[i]].completed])

\* the values the recompute stores for an empty child map
EmptyAgg ==
    [completed |-> 0, total |-> None, percentage |-> None, speed |-> FZero,
     elapsed |-> None, time_remaining |-> None, remaining |-> None,
     finished |-> FALSE, indeterminate |-> TRUE]

\* all(child.finished for child in children)
AllFinished(T, cl) == \A i \in 1..Len(cl) : finished(T[cl[i]])

\* any(t is None for t in child_totals)
AnyTotalNone(T, cl) == \E i \in 1..Len(cl) : T[cl[i]].total = None

\* the second part of the recompute: total, indeterminate, percentage and
\* remaining, from the children's totals and the completed sum just stored
aggregate_total(T, cl, completed) ==
    LET total == SumSeq([i \in 1..Len(cl) |-> T[cl[i]].total[1]])
    IN  IF AnyTotalNone(T, cl)
        THEN [total |-> None, indeterminate |-> TRUE,
              percentage |-> None, remaining |-> None]
        ELSE IF total > 0
        THEN [total |-> Some(total), indeterminate |-> FALSE,
              percentage |-> Some(FMin(FOne, Frac(completed, total))),
              remaining |-> Some(Max2(0, total - completed))]
        ELSE [total |-> Some(total), indeterminate |-> FALSE,
              percentage |-> Some(FOne), remaining |-> Some(0)]

\* the last part of the recompute: speed, elapsed, time_remaining and
\* finished, from the children and the remaining just stored, at clock t
aggregate_rest(T, cl, rem, t) ==
    LET spd == FSumSeq([i \in 1..Len(cl) |-> speed(T[cl[i]], t)])
        starts == SelectSeq([i \in 1..Len(cl) |-> T[cl[i]].start_time],
                            LAMBDA s : s # None /\ s # Some(0))
    IN  [speed |-> spd,
         elapsed |-> IF starts # <<>>
                     THEN Some(t - MinSeq([i \in 1..Len(starts) |-> starts[i][1]]))
                     ELSE None,
         time_remaining |-> IF FPos(spd) /\ rem # None
                            THEN Some(FDivInt(rem[1], spd))
                            ELSE None,
         finished |-> AllFinished(T, cl)]

\* Tasks._update_aggregated_values over the trackers T, child map ch, clock t
update_aggregated_values(T, ch, t) ==
    LET cl == ChildList(ch)
        completed == SumCompleted(T, cl)
        tf == aggregate_total(T, cl, completed)
        rf == aggregate_rest(T, cl, tf.remaining, t)
    IN  IF cl = <<>> THEN EmptyAgg
        ELSE [completed |-> completed,
              total |-> tf.total,
              indeterminate |-> tf.indeterminate,
              percentage |-> tf.percentage,
              remaining |-> tf.remaining,
              speed |-> rf.speed,
              elapsed |-> rf.elapsed,
              time_remaining |-> rf.time_remaining,
              finished |-> rf.finished]

(* ------------------------ reactive assignments ------------------------- *)
\* The heap H is [tk: the trackers, agg: the container's cached aggregates,
\* ch: the container's child map as a sequence of [key, task] in insertion
\* order].  A handler is a function from heap to heap; the clock is read
\* from now.

\* isinstance(self.parent, Tasks)
has_parent(H, t) == H.tk[t].st = "child"

\* Tasks._on_child_changed
on_child_changed(H) ==
    [H EXCEPT !.agg = update_aggregated_values(H.tk, H.ch, now)]

\* the notification at the end of watch_completed and watch_total
notify_parent(H, t) == IF has_parent(H, t) THEN on_child_changed(H) ELSE H

\* a completed watcher that records no sample
watch_completed_no_sample(H, t, value) ==
    LET T1 == [H.tk[t] EXCEPT !.last_updated = Some(now)]
        T3 == update_state_classes(T1)
    IN  notify_parent([H EXCEPT !.tk[t] = T3], t)

\* Task.watch_completed
watch_completed(H, t, value) ==
    LET T1 == [H.tk[t] EXCEPT !.last_updated = Some(now)]
        T2 == add_sample(T1, value, now)
        T3 == update_state_classes(T2)
    IN  notify_parent([H EXCEPT !.tk[t] = T3], t)

\* self.completed = v: stores v and runs the watcher only when v differs
set_completed(H, t, v) ==
    IF H.tk[t].completed # v
    THEN watch_completed([H EXCEPT !.tk[t].completed = v], t, v)
    ELSE H

\* a total watcher that forgets to notify the parent
watch_total_no_notify(H, t, value) ==
    LET T0 == H.tk[t]
        T1 == IF value # None /\ T0.start_time = None
              THEN [T0 EXCEPT !.start_time = Some(now)] ELSE T0
    IN  [H EXCEPT !.tk[t] = update_state_classes(T1)]

\* Task.watch_total
watch_total(H, t, value) ==
    LET T0 == H.tk[t]
        T1 == IF value # None /\ T0.start_time = None
              THEN [T0 EXCEPT !.start_time = Some(now)] ELSE T0
        T2 == update_state_classes(T1)
    IN  notify_parent([H EXCEPT !.tk[t] = T2], t)

\* self.total = v: stores v and runs the watcher only when v differs
set_total(H, t, v) ==
    IF H.tk[t].total # v
    THEN watch_total([H EXCEPT !.tk[t].total = v], t, v)
    ELSE H

(* ---------------------------- Task control ----------------------------- *)
\* the reactive defaults of a Task before __init__ assigns anything
TaskDefaults ==
    [st |-> "free", completed |-> 0, total |-> None, start_time |-> None,
     last_updated |-> None, stop_time |-> None, finished_time |-> None,
     samples |-> <<>>, classes |-> {}]

\* a slot of the tracker pool that holds no Task yet
NoTask == [TaskDefaults EXCEPT !.st = "none"]

\* Task.__init__(total=total)
task_init(H, t, total) ==
    LET H1 == set_total([H EXCEPT !.tk[t] = TaskDefaults], t, total)
    IN  [H1 EXCEPT !.tk[t].samples = <<<<now, 0>>>>]

\* an advance that subtracts the amount
advance_subtract(H, t, amount) == set_completed(H, t, H.tk[t].completed - amount)

\* Task.advance
advance(H, t, amount) == set_completed(H, t, H.tk[t].completed + amount)

\* Task.reset
reset(H, t) ==
    LET H1 == set_completed(H, t, 0)
        T2 == [H1.tk[t] EXCEPT !.start_time = None, !.last_updated = None,
                               !.stop_time = None, !.finished_time = None,
                               !.samples = <<<<now, 0>>>>]
    IN  [H1 EXCEPT !.tk[t] = update_state_classes(T2)]

\* a complete() that stamps stop_time even when it is already set
complete_restamp_stop(H, t) ==
    LET H1 == IF H.tk[t].total # None
              THEN set_completed(H, t, H.tk[t].total[1]) ELSE H
        T1 == H1.tk[t]
        T2 == [T1 EXCEPT !.finished_time = Some(now),
                         !.stop_time = Some(now),
                         !.classes = (T1.classes \ {"pending", "active", "failed"})
                                     \cup {"complete"}]
    IN  [H1 EXCEPT !.tk[t] = T2]

\* Task.complete
complete(H, t) ==
    LET H1 == IF H.tk[t].total # None
              THEN set_completed(H, t, H.tk[t].total[1]) ELSE H
        T1 == H1.tk[t]
        T2 == [T1 EXCEPT !.finished_time = Some(now),
                         !.stop_time = IF T1.stop_time = None THEN Some(now)
                                       ELSE T1.stop_time,
                         !.classes = (T1.classes \ {"pending", "active", "failed"})
                                     \cup {"complete"}]
    IN  [H1 EXCEPT !.tk[t] = T2]

\* a fail() that stamps stop_time even when it is already set
fail_restamp_stop(H, t) ==
    LET T1 == H.tk[t]
    IN  [H EXCEPT !.tk[t] =
            [T1 EXCEPT !.stop_time = Some(now),
                       !.classes = (T1.classes \ {"pending", "active", "complete"})
                                   \cup {"failed"}]]

\* Task.fail
fail(H, t) ==
    LET T1 == H.tk[t]
    IN  [H EXCEPT !.tk[t] =
            [T1 EXCEPT !.stop_time = IF T1.stop_time = None THEN Some(now)
                                     ELSE T1.stop_time,
                       !.classes = (T1.classes \ {"pending", "active", "complete"})
                                   \cup {"failed"}]]

\* an __aenter__ that leaves the failed class in place
aenter_keep_failed(H, t) ==
    LET T1 == H.tk[t]
    IN  [H EXCEPT !.tk[t] =
            [T1 EXCEPT !.classes = (T1.classes \ {"pending", "complete"})
                                   \cup {"active"},
                       !.start_time = IF T1.start_time = None THEN Some(now)
                                      ELSE T1.start_time]]

\* Task.__aenter__
aenter(H, t) ==
    LET T1 == H.tk[t]
    IN  [H EXCEPT !.tk[t] =
            [T1 EXCEPT !.classes = (T1.classes \ {"pending", "complete", "failed"})
                                   \cup {"active"},
                       !.start_time = IF T1.start_time = None THEN Some(now)
                                      ELSE T1.start_time]]

\* the value __aexit__ returns: a true value would suppress the exception
aexit_result(exc) == FALSE

\* an __aexit__ that completes the task whether the block raised or not
aexit_always_complete(H, t, exc) == complete(H, t)

\* Task.__aexit__; exc says whether the block raised
aexit(H, t, exc) == IF exc THEN fail(H, t) ELSE complete(H, t)

(* -------------------------- child management --------------------------- *)
HasKey(ch, key) == \E i \in 1..Len(ch) : ch[i].key = key

IndexOf(ch, key) == CHOOSE i \in 1..Len(ch) : ch[i].key = key

\* self._children[key] = task: a new key goes last, an old key keeps its place
PutChild(ch, key, t) ==
    IF HasKey(ch, key)
    THEN [ch EXCEPT ![IndexOf(ch, key)] = [key |-> key, task |-> t]]
    ELSE Append(ch, [key |-> key, task |-> t])

\* an add_task that leaves the replaced tracker attached (no old_task.remove())
add_task_keep_parent(H, key, t) ==
    LET H2 == [H EXCEPT !.ch = PutChild(H.ch, key, t), !.tk[t].st = "child"]
    IN  on_child_changed(H2)

\* Tasks.add_task
add_task(H, key, t) ==
    LET H1 == IF HasKey(H.ch, key)
              THEN [H EXCEPT !.tk[H.ch[IndexOf(H.ch, key)].task].st = "detached"]
              ELSE H
        H2 == [H1 EXCEPT !.ch = PutChild(H1.ch, key, t), !.tk[t].st = "child"]
    IN  on_child_changed(H2)

\* Tasks.create_task
create_task(H, key, t, total) == add_task(task_init(H, t, total), key, t)

(* ------------------------------ current_task -------------------------- *)
\* The title of a tracker is modelled by the tracker itself (its slot); the
\* container's own title is ContainerTitle.
ContainerTitle == 0

\* a max() that returns the last of several maximal elements
MaxByLastUpdated_last_wins(T, s) ==
    LET Step2(best, i) == IF T[s[i]].last_updated[1] >= T[best].last_updated[1]
                          THEN s[i] ELSE best
        F[i \in 1..Len(s)] == IF i = 1 THEN s[1] ELSE Step2(F[i - 1], i)
    IN  F[Len(s)]

\* max(active, key=lambda c: c.last_updated or 0): the first maximal element
MaxByLastUpdated(T, s) ==
    LET Step2(best, i) == IF T[s[i]].last_updated[1] > T[best].last_updated[1]
                          THEN s[i] ELSE best
        F[i \in 1..Len(s)] == IF i = 1 THEN s[1] ELSE Step2(F[i - 1], i)
    IN  F[Len(s)]

\* Tasks.current_task
current_task(H) ==
    LET active == SelectSeq(ChildList(H.ch),
                            LAMBDA c : H.tk[c].last_updated # None
                                       /\ H.tk[c].completed > 0)
    IN  IF H.ch = <<>> THEN ContainerTitle
        ELSE IF active # <<>> THEN MaxByLastUpdated(H.tk, active)
        ELSE ContainerTitle

(* ------------------------------- Spinner ------------------------------- *)
\* widgets/spinner.py.  The spinner record sp holds the reactives task (0 is
\* None), frames and speed, the fields _current_frame, _is_spinning and
\* _animation_task (0 is None, otherwise an index into loops) and the set of
\* trackers the spinner has registered callbacks on.  loops is the sequence
\* of asyncio tasks created for _animation_loop, each with its position and
\* whether cancel() was called on it.  A spinner and its loops travel
\* together as W = [sp, loops].
\* Spinner.watch registers a callback that runs, synchronously, when the
\* named reactive of the tracker changes.  Task has a reactive total and no
\* reactive progress, so only an assignment that changes total runs it.

\* the frame lists and speeds assigned to a spinner; the default braille
\* list of ten frames is scaled down to two
DefaultFrames == <<"-", "+">>
FrameLists == {<<>>, <<"-">>, DefaultFrames}
DefaultSpeed == 1
Speeds == {1, 2}

\* Spinner.__init__() with no arguments
SpinnerNew ==
    [task |-> 0, frames |-> DefaultFrames, speed |-> DefaultSpeed,
     current_frame |-> 0, is_spinning |-> FALSE, animation_task |-> 0,
     watched |-> {}, mounted |-> "new"]

\* an asyncio task that has not finished
LoopAlive(l) == l.pc \in {"created", "sleeping"}

\* Spinner._start_spinning
start_spinning(W) ==
    IF W.sp.is_spinning \/ W.sp.frames = <<>> THEN W
    ELSE [sp |-> [W.sp EXCEPT !.is_spinning = TRUE,
                              !.animation_task = Len(W.loops) + 1],
          loops |-> Append(W.loops, [pc |-> "created", cancelled |-> FALSE])]

\* asyncio.Task.cancel(): a request that a finished task ignores
cancel(ls, i) ==
    IF LoopAlive(ls[i]) THEN [ls EXCEPT ![i].cancelled = TRUE] ELSE ls

\* Spinner._stop_spinning
stop_spinning(W) ==
    IF ~W.sp.is_spinning THEN W
    ELSE [sp |-> [W.sp EXCEPT !.is_spinning = FALSE, !.animation_task = 0],
          loops |-> IF W.sp.animation_task # 0
                    THEN cancel(W.loops, W.sp.animation_task)
                    ELSE W.loops]

\* is_complete in _update_spinning_state, for the tracker T
is_complete(T) ==
    \/ "complete" \in T.classes
    \/ "failed" \in T.classes
    \/ (percentage(T) # None /\ FLe(FOne, percentage(T)[1]))

\* Spinner._update_spinning_state, over the trackers Ts
update_spinning_state(W, Ts) ==
    IF W.sp.task = 0 THEN stop_spinning(W)
    ELSE IF is_complete(Ts[W.sp.task]) THEN stop_spinning(W)
    ELSE start_spinning(W)

\* Spinner._on_task_progress
on_task_progress(W, Ts) == update_spinning_state(W, Ts)

\* Spinner.watch_task: each watch() calls its callback once on registration
watch_task(W, Ts, task) ==
    IF task = 0 THEN stop_spinning(W)
    ELSE LET W1 == on_task_progress(
                     [W EXCEPT !.sp.watched = @ \cup {task}], Ts)
             W2 == on_task_progress(W1, Ts)
         IN  update_spinning_state(W2, Ts)

\* spinner.task = task
set_task(W, Ts, task) ==
    IF W.sp.task # task
    THEN watch_task([W EXCEPT !.sp.task = task], Ts, task)
    ELSE W

\* Spinner.watch_frames
watch_frames(W, frames) == [W EXCEPT !.sp.current_frame = 0]

\* spinner.frames = frames
set_frames(W, frames) ==
    IF W.sp.frames # frames
    THEN watch_frames([W EXCEPT !.sp.frames = frames], frames)
    ELSE W

\* Spinner.watch_speed
watch_speed(W, v) ==
    IF W.sp.is_spinning THEN start_spinning(stop_spinning(W)) ELSE W

\* spinner.speed = v
set_speed(W, v) ==
    IF W.sp.speed # v
    THEN watch_speed([W EXCEPT !.sp.speed = v], v)
    ELSE W

\* Spinner.on_mount
on_mount(W, Ts) == update_spinning_state([W EXCEPT !.sp.mounted = "mounted"], Ts)

\* Spinner.on_unmount
on_unmount(W) == stop_spinning([W EXCEPT !.sp.mounted = "unmounted"])

\* the callbacks the spinner registered on tracker t, after a call that took
\* the trackers from Ts0 to Ts1: they run when the tracker's total changed
task_watchers(W, Ts0, Ts1, t) ==
    IF t \in W.sp.watched /\ Ts0[t].total # Ts1[t].total
    THEN on_task_progress(W, Ts1)
    ELSE W

\* the while condition of _animation_loop
loop_condition(S) == S.is_spinning /\ S.frames # <<>>

\* one scheduling of the asyncio task i: from its creation to the first
\* sleep, or from one sleep to the next.  A cancelled task ends at the
\* CancelledError raised at its await; the frame arithmetic raises
\* ZeroDivisionError on an empty frame list, which ends the task too.
animation_loop(W, i) ==
    LET l == W.loops[i]
        S == W.sp
        stepped == [S EXCEPT !.current_frame = (@ + 1) % Len(S.frames)]
    IN  IF l.cancelled THEN [W EXCEPT !.loops[i].pc = "done"]
        ELSE IF l.pc = "created"
        THEN [W EXCEPT !.loops[i].pc =
                 IF loop_condition(S) THEN "sleeping" ELSE "done"]
        ELSE IF ~S.is_spinning THEN [W EXCEPT !.loops[i].pc = "done"]
        ELSE IF S.frames = <<>> THEN [W EXCEPT !.loops[i].pc = "crashed"]
        ELSE [sp |-> stepped,
              loops |-> [W.loops EXCEPT ![i].pc =
                            IF loop_condition(stepped) THEN "sleeping"
                            ELSE "done"]]

(* ------------------------------ AppRunner ------------------------------ *)
\* scripts/run.py.  The runner record rn holds the fields of AppRunner
\* (process: whether self.process is a Popen object, should_restart,
\* running), the local exit_code of run_app, the positions of the main
\* thread in run_app (pc) and of the watcher thread in restart_app (wpc),
\* and the state of the app's operating-system process (app, code).  It also
\* records what the claims speak about: changed (a file change was observed
\* since the app process was started), killed (this app process was ended by
\* the terminate() of restart_app), interrupted (Ctrl+C arrived), error (an
\* exception restart_app let escape), and the numbers of starts and changes.

\* the exit status of a process ended by SIGTERM that does not handle it
SIGTERM == -15

\* AppRunner.__init__, with the main thread about to enter run_app and the
\* observer thread waiting for events
RunnerNew ==
    [pc |-> "while", wpc |-> "idle", process |-> FALSE, should_restart |-> FALSE,
     running |-> TRUE, exit_code |-> 0, app |-> "none", code |-> 0,
     changed |-> FALSE, killed |-> FALSE, interrupted |-> FALSE,
     error |-> "none", starts |-> 0, changes |-> 0]

\* Popen.terminate() on the app process, which exits with status c if it is
\* still running and is left alone if it has exited
terminate(R, c) ==
    IF R.app = "running" THEN [R EXCEPT !.app = "exited", !.code = c] ELSE R


(* --------------------- single-threaded specification ------------------- *)
Heap == [tk |-> tk, agg |-> agg, ch |-> children]

\* the producers and the consumer of the concurrent specification, at rest
IdlePc == [p \in Producers |-> "idle"]
IdleLoc ==
    [p \in Producers |->
        [task |-> 0, amount |-> 0, tmp |-> 0, value |-> 0, t |-> 0,
         samples |-> <<>>, i |-> 0, acc |-> 0]]

\* Tasks.__init__: an empty child map and the reactive defaults of Tasks
Init ==
    /\ tk = [t \in TaskIds |-> NoTask]
    /\ agg = EmptyAgg
    /\ children = <<>>
    /\ now = 1
    /\ lastOp = [op |-> "init", task |-> 0]
    /\ ops = 0
    /\ explicit = [t \in TaskIds |-> FALSE]
    /\ valid = TRUE
    /\ pc = IdlePc
    /\ loc = IdleLoc
    /\ snap = EmptyAgg
    /\ sp = SpinnerNew
    /\ loops = <<>>
    /\ rn = RunnerNew

\* the arguments the documented contract allows: an amount >= 0, a total
\* that is None or > 0
ValidAmount(amount) == amount >= 0
ValidTotal(total) == total = None \/ total[1] > 0

\* the effect of one call: the heap it leaves, the call that was made and
\* whether its arguments were within the documented contract
Call(H, op, t, ok) ==
    /\ ops < MaxOps
    /\ valid' = (valid /\ ok)
    /\ tk' = H.tk
    /\ agg' = H.agg
    /\ children' = H.ch
    /\ lastOp' = [op |-> op, task |-> t]
    /\ ops' = ops + 1
    /\ UNCHANGED <<now, pc, loc, snap,
                   sp, loops, rn>>

\* the next unused slot of the tracker pool
IsFresh(t) == tk[t].st = "none" /\ \A u \in TaskIds : u < t => tk[u].st # "none"

Alive(t) == tk[t].st # "none"

\* the clock advances between calls
Tick ==
    /\ ops < MaxOps
    /\ ops' = ops + 1
    /\ now' = now + 1
    /\ lastOp' = [op |-> "tick", task |-> 0]
    /\ UNCHANGED <<tk, agg, children, explicit, valid, pc, loc, snap,
                   sp, loops, rn>>

\* Task(total=total), not owned by any container
NewTask(t, total) ==
    /\ IsFresh(t)
    /\ Call(task_init(Heap, t, total), "new", t, ValidTotal(total))
    /\ UNCHANGED explicit

\* Tasks.create_task(key, total=total)
CreateTask(key, t, total) ==
    /\ IsFresh(t)
    /\ Call(create_task(Heap, key, t, total), "create_task", t, ValidTotal(total))
    /\ UNCHANGED explicit

\* Tasks.add_task(key, task) and Tasks.__setitem__ with a Task no container owns
AddTask(key, t) ==
    /\ tk[t].st = "free"
    /\ Call(add_task(Heap, key, t), "add_task", t, TRUE)
    /\ UNCHANGED explicit

\* task.advance(amount)
Advance(t, amount) ==
    /\ Alive(t)
    /\ Call(advance(Heap, t, amount), "advance", t, ValidAmount(amount))
    /\ UNCHANGED explicit

\* task.completed = v
AssignCompleted(t, v) ==
    /\ Alive(t)
    /\ Call(set_completed(Heap, t, v), "set_completed", t, v >= 0)
    /\ UNCHANGED explicit

\* task.total = v
AssignTotal(t, v) ==
    /\ Alive(t)
    /\ Call(set_total(Heap, t, v), "set_total", t, ValidTotal(v))
    /\ UNCHANGED explicit

\* task.complete()
Complete(t) ==
    /\ Alive(t)
    /\ Call(complete(Heap, t), "complete", t, TRUE)
    /\ explicit' = [explicit EXCEPT ![t] = TRUE]

\* task.fail()
Fail(t) ==
    /\ Alive(t)
    /\ Call(fail(Heap, t), "fail", t, TRUE)
    /\ UNCHANGED explicit

\* task.reset()
Reset(t) ==
    /\ Alive(t)
    /\ Call(reset(Heap, t), "reset", t, TRUE)
    /\ explicit' = [explicit EXCEPT ![t] = FALSE]

\* async with task: entering the block
Enter(t) ==
    /\ Alive(t)
    /\ Call(aenter(Heap, t), "aenter", t, TRUE)
    /\ UNCHANGED explicit

\* async with task: leaving the block, with an exception or without
Exit(t, exc) ==
    /\ Alive(t)
    /\ Call(aexit(Heap, t, exc), "aexit", t, TRUE)
    /\ explicit' = [explicit EXCEPT ![t] = IF exc THEN @ ELSE TRUE]

Next ==
    \/ Tick
    \/ \E t \in TaskIds, total \in Totals : NewTask(t, total)
    \/ \E key \in Keys, t \in TaskIds, total \in Totals : CreateTask(key, t, total)
    \/ \E key \in Keys, t \in TaskIds : AddTask(key, t)
    \/ \E t \in TaskIds, amount \in Amounts : Advance(t, amount)
    \/ \E t \in TaskIds, v \in Values : AssignCompleted(t, v)
    \/ \E t \in TaskIds, v \in Totals : AssignTotal(t, v)
    \/ \E t \in TaskIds : Complete(t)
    \/ \E t \in TaskIds : Fail(t)
    \/ \E t \in TaskIds : Reset(t)
    \/ \E t \in TaskIds : Enter(t)
    \/ \E t \in TaskIds, exc \in BOOLEAN : Exit(t, exc)

Spec == Init /\ [][Next]_vars

(* ---------------------- single-tracker specification ------------------- *)
\* One Task, on its own or as the only child of the container: the calls of
\* Next restricted to the first tracker slot and the first key.
NextSingle ==
    \/ Tick
    \/ \E total \in Totals : NewTask(1, total)
    \/ \E total \in Totals : CreateTask("a", 1, total)
    \/ AddTask("a", 1)
    \/ \E amount \in Amounts : Advance(1, amount)
    \/ \E v \in Values : AssignCompleted(1, v)
    \/ \E v \in Totals : AssignTotal(1, v)
    \/ Complete(1)
    \/ Fail(1)
    \/ Reset(1)
    \/ Enter(1)
    \/ \E exc \in BOOLEAN : Exit(1, exc)

SpecSingle == Init /\ [][NextSingle]_vars

(* ----------------------- concurrent specification ---------------------- *)
\* Two producer threads each call advance(amount) once on a child of one
\* container while a consumer reads the container's cached aggregates.  The
\* code takes no lock, so a thread switch can fall between any two of the
\* steps below; each step groups statements of one thread that run in order.

ConcAmounts == {1, 2}
ConcClock == {1, 2}
ConcTotals == {None, Some(2)}

\* the container after create_task("a", total=ta) and create_task("b", total=tb)
TwoChildren(ta, tb) ==
    create_task(
        create_task([tk |-> [t \in TaskIds |-> NoTask], agg |-> EmptyAgg, ch |-> <<>>],
                    "a", 1, ta),
        "b", 2, tb)

InitConc ==
    /\ now = 1
    /\ \E ta \in ConcTotals, tb \in ConcTotals :
          /\ tk = TwoChildren(ta, tb).tk
          /\ agg = TwoChildren(ta, tb).agg
          /\ children = TwoChildren(ta, tb).ch
    /\ lastOp = [op |-> "init", task |-> 0]
    /\ ops = 0
    /\ explicit = [t \in TaskIds |-> FALSE]
    /\ valid = TRUE
    /\ pc = [p \in Producers |-> "start"]
    /\ loc \in [Producers ->
                  {[IdleLoc[1] EXCEPT !.task = t, !.amount = a] :
                      t \in {1, 2}, a \in ConcAmounts}]
    /\ snap = agg
    /\ sp = SpinnerNew
    /\ loops = <<>>
    /\ rn = RunnerNew

Step(p, next) == pc' = [pc EXCEPT ![p] = next]

\* the clock advances between two steps
TickConc ==
    /\ now + 1 \in ConcClock
    /\ now' = now + 1
    /\ UNCHANGED <<tk, agg, children, lastOp, ops, explicit, valid, pc, loc, snap,
                   sp, loops, rn>>

\* advance: the read of self.completed in "self.completed += amount"
P_Load(p) ==
    /\ pc[p] = "start"
    /\ loc' = [loc EXCEPT ![p].tmp = tk[loc[p].task].completed]
    /\ Step(p, "store")
    /\ UNCHANGED <<tk, agg, children, now, lastOp, ops, explicit, valid, snap,
                   sp, loops, rn>>

\* advance: the assignment in "self.completed += amount"; the watcher runs
\* only when the value stored differs from the current one
P_Store(p) ==
    LET t == loc[p].task
        v == loc[p].tmp + loc[p].amount
    IN  /\ pc[p] = "store"
        /\ IF tk[t].completed = v
           THEN /\ Step(p, "done")
                /\ UNCHANGED <<tk, loc>>
           ELSE /\ tk' = [tk EXCEPT ![t].completed = v]
                /\ loc' = [loc EXCEPT ![p].value = v]
                /\ Step(p, "watch")
        /\ UNCHANGED <<agg, children, now, lastOp, ops, explicit, valid, snap,
                       sp, loops, rn>>

\* watch_completed: last_updated = time(); _add_sample: now = time() and the
\* copy of the last samples
P_Watch(p) ==
    LET t == loc[p].task
    IN  /\ pc[p] = "watch"
        /\ tk' = [tk EXCEPT ![t].last_updated = Some(now)]
        /\ loc' = [loc EXCEPT ![p].t = now,
                              ![p].samples = LastN(tk[t].samples, SampleKeep)]
        /\ Step(p, "sample")
        /\ UNCHANGED <<agg, children, now, lastOp, ops, explicit, valid, snap,
                       sp, loops, rn>>

\* _add_sample: the append and the assignment of self._samples; then
\* _update_state_classes
P_Sample(p) ==
    LET t == loc[p].task
        T1 == [tk[t] EXCEPT !.samples =
                  Append(loc[p].samples, <<loc[p].t, loc[p].value>>)]
    IN  /\ pc[p] = "sample"
        /\ tk' = [tk EXCEPT ![t] = update_state_classes(T1)]
        /\ loc' = [loc EXCEPT ![p].i = 1, ![p].acc = 0]
        /\ Step(p, IF tk[t].st = "child" THEN "sum" ELSE "done")
        /\ UNCHANGED <<agg, children, now, lastOp, ops, explicit, valid, snap,
                       sp, loops, rn>>

\* _update_aggregated_values: one iteration of sum(child.completed ...)
P_Sum(p) ==
    LET cl == ChildList(children)
        i == loc[p].i
    IN  /\ pc[p] = "sum"
        /\ loc' = [loc EXCEPT ![p].acc = @ + tk[cl[i]].completed, ![p].i = i + 1]
        /\ Step(p, IF i = Len(cl) THEN "agg_completed" ELSE "sum")
        /\ UNCHANGED <<tk, agg, children, now, lastOp, ops, explicit, valid, snap,
                       sp, loops, rn>>

\* _update_aggregated_values: self.completed = <the sum>
P_AggCompleted(p) ==
    /\ pc[p] = "agg_completed"
    /\ agg' = [agg EXCEPT !.completed = loc[p].acc]
    /\ Step(p, "agg_total")
    /\ UNCHANGED <<tk, loc, children, now, lastOp, ops, explicit, valid, snap,
                   sp, loops, rn>>

\* _update_aggregated_values: total, indeterminate, percentage and remaining,
\* computed from the children's totals and the stored self.completed
P_AggTotal(p) ==
    LET tf == aggregate_total(tk, ChildList(children), agg.completed)
    IN  /\ pc[p] = "agg_total"
        /\ agg' = [agg EXCEPT !.total = tf.total,
                              !.indeterminate = tf.indeterminate,
                              !.percentage = tf.percentage,
                              !.remaining = tf.remaining]
        /\ Step(p, "agg_rest")
        /\ UNCHANGED <<tk, loc, children, now, lastOp, ops, explicit, valid, snap,
                       sp, loops, rn>>

\* _update_aggregated_values: speed, elapsed, time_remaining and finished
P_AggRest(p) ==
    LET rf == aggregate_rest(tk, ChildList(children), agg.remaining, now)
    IN  /\ pc[p] = "agg_rest"
        /\ agg' = [agg EXCEPT !.speed = rf.speed,
                              !.elapsed = rf.elapsed,
                              !.time_remaining = rf.time_remaining,
                              !.finished = rf.finished]
        /\ Step(p, "done")
        /\ UNCHANGED <<tk, loc, children, now, lastOp, ops, explicit, valid, snap,
                       sp, loops, rn>>

\* the consumer copies the container's aggregate fields
Snapshot ==
    /\ snap' = agg
    /\ snap' # snap
    /\ UNCHANGED <<tk, agg, children, now, lastOp, ops, explicit, valid, pc, loc,
                   sp, loops, rn>>

NextConc ==
    \/ TickConc
    \/ Snapshot
    \/ \E p \in Producers : P_Load(p)
    \/ \E p \in Producers : P_Store(p)
    \/ \E p \in Producers : P_Watch(p)
    \/ \E p \in Producers : P_Sample(p)
    \/ \E p \in Producers : P_Sum(p)
    \/ \E p \in Producers : P_AggCompleted(p)
    \/ \E p \in Producers : P_AggTotal(p)
    \/ \E p \in Producers : P_AggRest(p)

SpecConc == InitConc /\ [][NextConc]_vars

(* --------------------------- lookup specification ---------------------- *)
\* the first slot of the tracker pool that holds no Task, 0 when all do
FreshSlot(T) ==
    IF \E t \in TaskIds : T[t].st = "none"
    THEN CHOOSE t \in TaskIds :
            T[t].st = "none" /\ \A u \in TaskIds : u < t => T[u].st # "none"
    ELSE 0

\* a lookup that creates the child when the key is absent
getitem_get_or_create(H, key) ==
    IF HasKey(H.ch, key)
    THEN [heap |-> H, found |-> TRUE, task |-> H.ch[IndexOf(H.ch, key)].task]
    ELSE IF FreshSlot(H.tk) # 0
    THEN [heap |-> create_task(H, key, FreshSlot(H.tk), None), found |-> TRUE,
          task |-> FreshSlot(H.tk)]
    ELSE [heap |-> H, found |-> FALSE, task |-> 0]

\* Tasks.__getitem__: self._children[key], a KeyError when the key is absent
getitem(H, key) ==
    IF HasKey(H.ch, key)
    THEN [heap |-> H, found |-> TRUE, task |-> H.ch[IndexOf(H.ch, key)].task]
    ELSE [heap |-> H, found |-> FALSE, task |-> 0]

\* tasks[key]: lastOp records the tracker returned, or the KeyError
GetItem(key) ==
    /\ Call(getitem(Heap, key).heap,
            IF getitem(Heap, key).found THEN "getitem" ELSE "KeyError",
            getitem(Heap, key).task, TRUE)
    /\ UNCHANGED explicit

\* del tasks[key]: Tasks defines no __delitem__ (nor any other call that
\* drops a child), so the statement raises a TypeError and changes nothing
DelItem(key) ==
    /\ Call(Heap, "TypeError", 0, TRUE)
    /\ UNCHANGED explicit

NextLookup ==
    \/ Tick
    \/ \E t \in TaskIds, total \in Totals : NewTask(t, total)
    \/ \E key \in Keys, t \in TaskIds, total \in Totals : CreateTask(key, t, total)
    \/ \E key \in Keys, t \in TaskIds : AddTask(key, t)
    \/ \E t \in TaskIds, amount \in Amounts : Advance(t, amount)
    \/ \E t \in TaskIds, v \in Values : AssignCompleted(t, v)
    \/ \E t \in TaskIds : Complete(t)
    \/ \E t \in TaskIds : Reset(t)
    \/ \E key \in Keys : GetItem(key)
    \/ \E key \in Keys : DelItem(key)

SpecLookup == Init /\ [][NextLookup]_vars

(* ----------------------- replacement specification --------------------- *)
\* Two trackers and one key: every create_task or add_task after the first
\* replaces the tracker stored under the key.
NextReplace ==
    \/ Tick
    \/ \E t \in TaskIds, total \in Totals : NewTask(t, total)
    \/ \E t \in TaskIds, total \in Totals : CreateTask("a", t, total)
    \/ \E t \in TaskIds : AddTask("a", t)
    \/ \E t \in TaskIds, amount \in Amounts : Advance(t, amount)
    \/ \E t \in TaskIds, v \in Values : AssignCompleted(t, v)
    \/ \E t \in TaskIds, v \in Totals : AssignTotal(t, v)
    \/ \E t \in TaskIds : Complete(t)
    \/ \E t \in TaskIds : Fail(t)
    \/ \E t \in TaskIds : Reset(t)
    \/ \E t \in TaskIds : Enter(t)
    \/ \E t \in TaskIds, exc \in BOOLEAN : Exit(t, exc)

SpecReplace == Init /\ [][NextReplace]_vars

(* ------------------------ container specification --------------------- *)
\* Every tracker is created through Tasks.create_task under one of two keys,
\* so each is a child of the container or was one before it was replaced.
NextTree ==
    \/ Tick
    \/ \E key \in Keys, t \in TaskIds, total \in Totals : CreateTask(key, t, total)
    \/ \E t \in TaskIds, amount \in Amounts : Advance(t, amount)
    \/ \E t \in TaskIds, v \in Values : AssignCompleted(t, v)
    \/ \E t \in TaskIds, v \in Totals : AssignTotal(t, v)
    \/ \E t \in TaskIds : Complete(t)
    \/ \E t \in TaskIds : Fail(t)
    \/ \E t \in TaskIds : Reset(t)

SpecTree == Init /\ [][NextTree]_vars

(* ------------------------- speed specification ------------------------ *)
\* Task.speed as a function of the sample window and of the clock at the
\* moment it is read.  One tracker without a total starts with any window
\* the program can have built: timestamps in order, two samples in a row
\* differing in completed (the watcher runs only on a change), and the seed
\* (completed 0) still first unless the window is full.  The clock then moves
\* on while the window stays as it is.
SpeedTimes == {1, 2, 3}
ReadTimes == {1, 2, 3, 4, 5}

Windows ==
    {w \in UNION {[1..n -> SpeedTimes \X Values] : n \in 1..(SampleKeep + 1)} :
        /\ \A i \in 1..(Len(w) - 1) : w[i][1] <= w[i + 1][1] /\ w[i][2] # w[i + 1][2]
        /\ Len(w) < SampleKeep + 1 => w[1][2] = 0}

\* the tracker whose window is w, right after the call that wrote its last sample
TaskWithWindow(w) ==
    [TaskDefaults EXCEPT
        !.samples = w,
        !.completed = w[Len(w)][2],
        !.last_updated = IF Len(w) > 1 THEN Some(w[Len(w)][1]) ELSE None,
        !.classes = IF Len(w) > 1 THEN {"indeterminate"} ELSE {}]

InitSpeed ==
    /\ \E w \in Windows :
          /\ tk = [t \in TaskIds |-> IF t = 1 THEN TaskWithWindow(w) ELSE NoTask]
          /\ now = w[Len(w)][1]
    /\ agg = EmptyAgg
    /\ children = <<>>
    /\ lastOp = [op |-> "init", task |-> 0]
    /\ ops = 0
    /\ explicit = [t \in TaskIds |-> FALSE]
    /\ valid = TRUE
    /\ pc = IdlePc
    /\ loc = IdleLoc
    /\ snap = EmptyAgg
    /\ sp = SpinnerNew
    /\ loops = <<>>
    /\ rn = RunnerNew

\* the clock advances before speed is read
TickSpeed ==
    /\ now + 1 \in ReadTimes
    /\ now' = now + 1
    /\ UNCHANGED <<tk, agg, children, lastOp, ops, explicit, valid, pc, loc, snap,
                   sp, loops, rn>>

NextSpeed == TickSpeed

SpecSpeed == InitSpeed /\ [][NextSpeed]_vars

(* ------------------------- spinner specification ----------------------- *)
\* One Spinner and one Task: the calls on the tracker, the assignments to
\* the spinner's reactives, its mount and unmount, and the schedulings of
\* the animation loops by the event loop.
World == [sp |-> sp, loops |-> loops]

\* the effect of one call on the tracker or the spinner: the spinner and
\* loops W and the heap H it leaves, and whether its arguments were within
\* the documented contract
SpinCall(W, H, op, t, ok) ==
    /\ ops < MaxOps
    /\ ops' = ops + 1
    /\ valid' = (valid /\ ok)
    /\ tk' = H.tk
    /\ agg' = H.agg
    /\ children' = H.ch
    /\ lastOp' = [op |-> op, task |-> t]
    /\ sp' = W.sp
    /\ loops' = W.loops
    /\ UNCHANGED <<now, explicit, pc, loc, snap, rn>>

\* a call on tracker t that leaves the heap H: the spinner's callbacks on
\* the tracker run inside the call
TrackerCall(H, op, t, ok) ==
    SpinCall(task_watchers(World, tk, H.tk, t), H, op, t, ok)

\* task = Task(total=total)
SpinNewTask(total) ==
    /\ IsFresh(1)
    /\ SpinCall(World, task_init(Heap, 1, total), "new", 1, ValidTotal(total))

\* task.advance(amount)
SpinAdvance(amount) ==
    /\ Alive(1)
    /\ TrackerCall(advance(Heap, 1, amount), "advance", 1, ValidAmount(amount))

\* task.total = v
SpinAssignTotal(v) ==
    /\ Alive(1)
    /\ TrackerCall(set_total(Heap, 1, v), "set_total", 1, ValidTotal(v))

\* task.complete()
SpinComplete == Alive(1) /\ TrackerCall(complete(Heap, 1), "complete", 1, TRUE)

\* task.fail()
SpinFail == Alive(1) /\ TrackerCall(fail(Heap, 1), "fail", 1, TRUE)

\* spinner.task = task (0 for None)
SetTask(task) ==
    /\ task # 0 => Alive(task)
    /\ SpinCall(set_task(World, tk, task), Heap, "set_task", task, TRUE)

\* spinner.frames = frames
SetFrames(frames) ==
    /\ frames \in FrameLists
    /\ SpinCall(set_frames(World, frames), Heap, "set_frames", 0, TRUE)

\* spinner.speed = v
SetSpeed(v) ==
    /\ v \in Speeds
    /\ SpinCall(set_speed(World, v), Heap, "set_speed", 0, TRUE)

\* the widget is mounted
Mount ==
    /\ sp.mounted = "new"
    /\ SpinCall(on_mount(World, tk), Heap, "mount", 0, TRUE)

\* the widget is unmounted
Unmount ==
    /\ sp.mounted = "mounted"
    /\ SpinCall(on_unmount(World), Heap, "unmount", 0, TRUE)

\* the event loop runs the asyncio task i until its next await
AnimationLoop(i) ==
    /\ i \in 1..Len(loops)
    /\ LoopAlive(loops[i])
    /\ sp' = animation_loop(World, i).sp
    /\ loops' = animation_loop(World, i).loops
    /\ UNCHANGED <<tk, agg, children, now, lastOp, ops, explicit, valid, pc, loc,
                   snap, rn>>

LoopIds == 1..(MaxOps + 1)

NextSpin ==
    \/ \E total \in Totals : SpinNewTask(total)
    \/ \E amount \in Amounts : SpinAdvance(amount)
    \/ \E v \in Totals : SpinAssignTotal(v)
    \/ SpinComplete
    \/ SpinFail
    \/ \E task \in {0, 1} : SetTask(task)
    \/ \E frames \in FrameLists : SetFrames(frames)
    \/ \E v \in Speeds : SetSpeed(v)
    \/ Mount
    \/ Unmount
    \/ \E i \in LoopIds : AnimationLoop(i)

\* the event loop keeps running the asyncio tasks that are ready
SpecSpin ==
    Init /\ [][NextSpin]_vars /\ WF_vars(\E i \in LoopIds : AnimationLoop(i))

(* ------------------------- runner specification ------------------------ *)
\* The main thread in run_app, the watcher thread in restart_app, the app
\* process and the user's Ctrl+C, interleaved statement by statement.
NotRunner == <<tk, agg, children, now, lastOp, ops, explicit, valid, pc, loc,
               snap, sp, loops>>

\* the exit statuses of an app that ends by itself and of one that received
\* SIGTERM (the supervised command is arbitrary and may handle the signal)
ExitCodes == {0, 1}
TermCodes == {SIGTERM, 0}

\* run.py:58, while self.running
MainWhile ==
    /\ rn.pc = "while"
    /\ rn' = [rn EXCEPT !.pc = IF rn.running THEN "clear" ELSE "exited"]
    /\ UNCHANGED NotRunner

\* run.py:59, self.should_restart = False
MainClear ==
    /\ rn.pc = "clear"
    /\ rn' = [rn EXCEPT !.should_restart = FALSE, !.pc = "popen"]
    /\ UNCHANGED NotRunner

\* run.py:65, self.process = subprocess.Popen(self.command)
MainPopen ==
    /\ rn.pc = "popen"
    /\ rn.starts < MaxStarts
    /\ rn' = [rn EXCEPT !.process = TRUE, !.app = "running", !.pc = "wait",
                        !.changed = FALSE, !.killed = FALSE,
                        !.starts = @ + 1]
    /\ UNCHANGED NotRunner

\* run.py:68, exit_code = self.process.wait(), once the app has exited
MainWait ==
    /\ rn.pc = "wait"
    /\ rn.app = "exited"
    /\ rn' = [rn EXCEPT !.exit_code = rn.code, !.pc = "unset"]
    /\ UNCHANGED NotRunner

\* run.py:69, self.process = None
MainUnset ==
    /\ rn.pc = "unset"
    /\ rn' = [rn EXCEPT !.process = FALSE, !.pc = "check"]
    /\ UNCHANGED NotRunner

\* run.py:74-83, the three branches after the app exited
MainCheck ==
    /\ rn.pc = "check"
    /\ rn' = [rn EXCEPT !.pc = IF rn.should_restart THEN "while"
                               ELSE IF rn.exit_code = 0 THEN "exited"
                               ELSE "crashed"]
    /\ UNCHANGED NotRunner

\* run.py:85-89, the wait after a crash ends when a restart is requested
MainCrashed ==
    /\ rn.pc = "crashed"
    /\ rn.should_restart \/ ~rn.running
    /\ rn' = [rn EXCEPT !.pc = "while"]
    /\ UNCHANGED NotRunner

\* run.py:91-100, KeyboardInterrupt inside the try block
Interrupt ==
    /\ rn.pc \in {"popen", "wait", "unset", "check", "crashed"}
    /\ \E c \in TermCodes :
          rn' = [(IF rn.process THEN terminate(rn, c) ELSE rn)
                    EXCEPT !.running = FALSE, !.interrupted = TRUE,
                           !.pc = "exited"]
    /\ UNCHANGED NotRunner

\* the app ends by itself
AppExit(c) ==
    /\ rn.app = "running"
    /\ rn' = [rn EXCEPT !.app = "exited", !.code = c]
    /\ UNCHANGED NotRunner

\* run.py:20-23 and 36, a .py file changed: restart_app is entered and
\* sets self.should_restart = True
FileChange ==
    /\ rn.wpc = "idle"
    /\ rn.changes < MaxChanges
    /\ rn' = [rn EXCEPT !.should_restart = TRUE, !.changed = TRUE,
                        !.changes = @ + 1, !.wpc = "test"]
    /\ UNCHANGED NotRunner

\* run.py:37, if self.process
WatcherTest ==
    /\ rn.wpc = "test"
    /\ rn' = [rn EXCEPT !.wpc = IF rn.process THEN "terminate" ELSE "idle"]
    /\ UNCHANGED NotRunner

\* run.py:39-43, self.process.terminate(): self.process is read again, and
\* None has no terminate
WatcherTerminate ==
    /\ rn.wpc = "terminate"
    /\ IF ~rn.process
       THEN rn' = [rn EXCEPT !.error = "AttributeError", !.wpc = "raised"]
       ELSE \E c \in TermCodes :
              rn' = [terminate(rn, c) EXCEPT
                        !.killed = (rn.killed \/ rn.app = "running"),
                        !.wpc = "idle"]
    /\ UNCHANGED NotRunner

NextRunner ==
    \/ MainWhile
    \/ MainClear
    \/ MainPopen
    \/ MainWait
    \/ MainUnset
    \/ MainCheck
    \/ MainCrashed
    \/ Interrupt
    \/ \E c \in ExitCodes : AppExit(c)
    \/ FileChange
    \/ WatcherTest
    \/ WatcherTerminate

SpecRunner == Init /\ [][NextRunner]_vars

(* ------------------------------ properties ----------------------------- *)
IsFailed(T) == "failed" \in T.classes
IsComplete(T) == "complete" \in T.classes

\* the trackers currently in the child map
ChildSet == {children[i].task : i \in 1..Len(children)}

RECURSIVE SumCompletedOver(_)
SumCompletedOver(S) ==
    IF S = {} THEN 0
    ELSE LET t == CHOOSE x \in S : TRUE
         IN  tk[t].completed + SumCompletedOver(S \ {t})

\* C1: whenever a call has returned, Tasks.completed is the sum of completed
\* over exactly the trackers in the child map.
C1_CompletedIsChildSum == agg.completed = SumCompletedOver(ChildSet)

C1_Witness ==
    /\ Len(children) = 2
    /\ lastOp.op = "advance"
    /\ tk[lastOp.task].st = "child"
    /\ agg.completed # 0

\* C2: Tasks.indeterminate is true exactly when there is no child or some
\* child has no total, and Tasks.total and Tasks.percentage are None exactly
\* when Tasks.indeterminate is true.
C2_IndeterminateIff ==
    /\ agg.indeterminate <=> (ChildSet = {} \/ \E t \in ChildSet : tk[t].total = None)
    /\ (agg.total = None) <=> agg.indeterminate
    /\ (agg.percentage = None) <=> agg.indeterminate

C2_Witness ==
    /\ Len(children) = 2
    /\ lastOp.op = "set_total"
    /\ tk[lastOp.task].st = "child"
    /\ tk[lastOp.task].total = None
    /\ \E t \in ChildSet : tk[t].total # None
    /\ agg.indeterminate

ProgressCalls == {"advance", "set_completed", "set_total"}

\* C3: an advance or an assignment of completed/total (with arguments the
\* contract allows) on a tracker that is Failed or Complete leaves it in
\* that same terminal state.
C3_TerminalStateSticks ==
    [][\A t \in TaskIds :
          (valid' /\ lastOp'.op \in ProgressCalls /\ lastOp'.task = t) =>
              /\ IsFailed(tk[t]) => IsFailed(tk'[t])
              /\ IsComplete(tk[t]) => IsComplete(tk'[t])]_vars

C5_FinishedHasStopTime ==
    valid => \A t \in TaskIds : finished(tk[t]) => tk[t].stop_time # None

\* C6: whenever a call has returned, Tasks.finished is true exactly when the
\* container has a child and every child is finished.
C6_FinishedIffAllChildren ==
    valid =>
        (agg.finished <=> (ChildSet # {} /\ \A t \in ChildSet : finished(tk[t])))

\* C7: when advance, complete or reset on a child changes completed and so
\* triggers the recompute, the aggregates cached when the call returns are
\* those of a full recompute over the final state at the same clock value.
C7_RecomputeSeesFinalState ==
    [][\A t \in TaskIds :
          (/\ valid'
           /\ lastOp'.op \in {"advance", "complete", "reset"}
           /\ lastOp'.task = t
           /\ tk[t].st = "child"
           /\ tk'[t].completed # tk[t].completed) =>
              agg' = update_aggregated_values(tk', children', now')]_vars

AllDone == \A p \in Producers : pc[p] = "done"

\* C8: once two concurrent advance calls on two different children have
\* both returned, Tasks.completed is the sum of the children's completed.
C8_ConcurrentChildrenSum ==
    (AllDone /\ loc[1].task # loc[2].task) =>
        agg.completed = SumCompletedOver(ChildSet)

\* C9: once two concurrent calls advance(a) and advance(b) on the same
\* tracker have both returned, its completed is a + b higher than before
\* (it was 0) and its window holds the seed and one sample per call.
C9_NoLostAdvance ==
    (AllDone /\ loc[1].task = loc[2].task) =>
        /\ tk[loc[1].task].completed = loc[1].amount + loc[2].amount
        /\ Len(tk[loc[1].task].samples) = 3

\* the relation that holds between the aggregate fields one complete
\* recompute stores
OneRecompute(a) ==
    IF a.indeterminate
    THEN a.total = None /\ a.percentage = None /\ a.remaining = None
    ELSE /\ a.total # None /\ a.percentage # None /\ a.remaining # None
         /\ a.percentage[1] =
               (IF a.total[1] > 0 THEN FMin(FOne, Frac(a.completed, a.total[1]))
                ELSE FOne)
         /\ a.remaining[1] =
               (IF a.total[1] > 0 THEN Max2(0, a.total[1] - a.completed) ELSE 0)

\* C10: whatever the consumer reads, at any moment, is the field set of one
\* complete recompute, never new fields next to old ones.
C10_SnapshotNotTorn == OneRecompute(snap)

\* C11: advance(amount) with a negative amount changes nothing: the tracker
\* (completed, samples, last_updated, state) and the owning container's
\* aggregates are the same after the call as before it.
C11_NegativeAdvanceRejected ==
    [][\A t \in TaskIds, amount \in Amounts :
          (/\ valid
           /\ lastOp'.op = "advance"
           /\ amount < 0
           /\ Advance(t, amount)) =>
              /\ tk'[t] = tk[t]
              /\ agg' = agg]_vars

\* C12: in every reachable state the total of a tracker is either None or
\* greater than 0 (a total <= 0 is refused at construction and on assignment).
C12_TotalAbsentOrPositive ==
    \A t \in TaskIds : tk[t].total = None \/ tk[t].total[1] > 0

\* C13: an advance(amount) with amount >= 0 never decreases completed.
C13_AdvanceNonDecreasing ==
    [][\A t \in TaskIds, amount \in Amounts :
          (/\ lastOp'.op = "advance"
           /\ amount >= 0
           /\ Advance(t, amount)) =>
              tk'[t].completed >= tk[t].completed]_vars

\* two advances by 1 on a new tracker, nothing else but clock ticks
C13_Witness ==
    \E t \in TaskIds :
        /\ lastOp = [op |-> "advance", task |-> t]
        /\ tk[t].completed = 2
        /\ Len(tk[t].samples) = 3
        /\ tk[t].samples[2][2] = 1
        /\ tk[t].samples[3][2] = 2

\* a fraction within [0, 1]
InUnitRange(x) == FLe(FZero, x) /\ FLe(x, FOne)

\* C14: in every reachable state Task.percentage is None or within [0, 1],
\* and it is None exactly when the tracker is indeterminate (total is None).
C14_TaskPercentageRange ==
    \A t \in TaskIds :
        Alive(t) =>
            /\ percentage(tk[t]) # None => InUnitRange(percentage(tk[t])[1])
            /\ (percentage(tk[t]) = None) <=> indeterminate(tk[t])

\* C15: in every reachable state Tasks.percentage is None or within [0, 1].
C15_TasksPercentageRange ==
    agg.percentage # None => InUnitRange(agg.percentage[1])

RECURSIVE SumTotalOver(_)
SumTotalOver(S) ==
    IF S = {} THEN 0
    ELSE LET t == CHOOSE x \in S : TRUE
         IN  tk[t].total[1] + SumTotalOver(S \ {t})

\* C16: when the container has children and all of them have a total,
\* Tasks.total is the sum of their totals, Tasks.remaining is
\* max(0, total - completed), and Tasks.percentage is completed/total clamped
\* to [0, 1] when total > 0 and 1.0 otherwise.
C16_DeterminateAggregates ==
    (ChildSet # {} /\ \A t \in ChildSet : tk[t].total # None) =>
        LET total == SumTotalOver(ChildSet)
        IN  /\ agg.total = Some(total)
            /\ agg.remaining = Some(Max2(0, total - agg.completed))
            /\ agg.percentage =
                  Some(IF total > 0
                       THEN FMin(FOne, FMax(FZero, Frac(agg.completed, total)))
                       ELSE FOne)

\* C17: after complete(), from any state: completed equals total when total
\* is present and is unchanged when it is None, the tracker is Complete,
\* finished and not Failed, finished_time is set, and stop_time is set, with
\* its earlier value when it had one.
C17_CompletePostcondition ==
    [][\A t \in TaskIds :
          (lastOp'.op = "complete" /\ Complete(t)) =>
              /\ tk[t].total # None => tk'[t].completed = tk[t].total[1]
              /\ tk[t].total = None => tk'[t].completed = tk[t].completed
              /\ tk'[t].total = tk[t].total
              /\ IsComplete(tk'[t]) /\ finished(tk'[t]) /\ ~IsFailed(tk'[t])
              /\ tk'[t].finished_time = Some(now)
              /\ tk'[t].stop_time # None
              /\ tk[t].stop_time # None => tk'[t].stop_time = tk[t].stop_time]_vars

\* complete() on a tracker with a positive total whose stop_time was set at
\* an earlier clock value: stop_time keeps that value
C17_Witness ==
    \E t \in TaskIds :
        /\ valid
        /\ lastOp = [op |-> "complete", task |-> t]
        /\ tk[t].total # None /\ tk[t].total[1] > 0
        /\ tk[t].completed = tk[t].total[1]
        /\ IsComplete(tk[t]) /\ ~IsFailed(tk[t])
        /\ tk[t].finished_time = Some(now)
        /\ tk[t].stop_time # None /\ tk[t].stop_time[1] < now

\* C18: complete() on a tracker that complete() has already made Complete
\* changes no field of it, also when the clock has advanced in between.
C18_CompleteIdempotent ==
    [][\A t \in TaskIds :
          (/\ valid
           /\ explicit[t]
           /\ IsComplete(tk[t])
           /\ lastOp'.op = "complete"
           /\ Complete(t)) =>
              tk'[t] = tk[t]]_vars

\* C19: fail() makes the tracker Failed and finished, sets stop_time only
\* when it was None, and leaves completed, total, samples, start_time,
\* last_updated and finished_time as they were; on a tracker that is already
\* Failed it changes no field.
C19_FailFrame ==
    [][\A t \in TaskIds :
          (lastOp'.op = "fail" /\ Fail(t)) =>
              /\ IsFailed(tk'[t]) /\ finished(tk'[t])
              /\ tk'[t].stop_time =
                    (IF tk[t].stop_time = None THEN Some(now) ELSE tk[t].stop_time)
              /\ tk'[t].completed = tk[t].completed
              /\ tk'[t].total = tk[t].total
              /\ tk'[t].samples = tk[t].samples
              /\ tk'[t].start_time = tk[t].start_time
              /\ tk'[t].last_updated = tk[t].last_updated
              /\ tk'[t].finished_time = tk[t].finished_time
              /\ IsFailed(tk[t]) => tk'[t] = tk[t]]_vars

\* a fail() at a later clock value than the stop_time an earlier fail() set
C19_Witness ==
    \E t \in TaskIds :
        /\ lastOp = [op |-> "fail", task |-> t]
        /\ IsFailed(tk[t])
        /\ tk[t].finished_time = None
        /\ tk[t].stop_time # None /\ tk[t].stop_time[1] < now

\* C20: fail() on a Complete tracker leaves it Complete and not Failed, and
\* complete() on a Failed tracker leaves it Failed and not Complete.
C20_TerminalOnlyLeftByReset ==
    [][\A t \in TaskIds :
          /\ (/\ valid /\ explicit[t]
              /\ IsComplete(tk[t]) /\ ~IsFailed(tk[t])
              /\ lastOp'.op = "fail" /\ Fail(t)) =>
                 (IsComplete(tk'[t]) /\ ~IsFailed(tk'[t]))
          /\ (/\ valid
              /\ IsFailed(tk[t]) /\ ~IsComplete(tk[t])
              /\ lastOp'.op = "complete" /\ Complete(t)) =>
                 (IsFailed(tk'[t]) /\ ~IsComplete(tk'[t]))]_vars

IsPending(T) == "pending" \in T.classes
IsActive(T) == "active" \in T.classes

\* C21: after reset(), from any state and with or without a total:
\* completed is 0, start_time, last_updated, stop_time and finished_time are
\* None, the window holds exactly the seed sample (now, 0), the tracker is
\* Pending and not finished.
C21_ResetPostcondition ==
    [][\A t \in TaskIds :
          (valid /\ lastOp'.op = "reset" /\ Reset(t)) =>
              /\ tk'[t].completed = 0
              /\ tk'[t].start_time = None
              /\ tk'[t].last_updated = None
              /\ tk'[t].stop_time = None
              /\ tk'[t].finished_time = None
              /\ tk'[t].samples = <<<<now, 0>>>>
              /\ IsPending(tk'[t])
              /\ ~finished(tk'[t])]_vars

\* C22: a Task that has just been constructed, with a total or without, is
\* Pending with completed 0, not finished, and its window holds exactly the
\* seed sample (now, 0).
C22_NewTaskPending ==
    [][\A t \in TaskIds, total \in Totals :
          (/\ lastOp'.op \in {"new", "create_task"}
           /\ ValidTotal(total)
           /\ (NewTask(t, total) \/ \E key \in Keys : CreateTask(key, t, total))) =>
              /\ IsPending(tk'[t])
              /\ tk'[t].completed = 0
              /\ ~finished(tk'[t])
              /\ tk'[t].samples = <<<<now, 0>>>>]_vars

\* a tracker that is not Active, Complete or Failed
NotStarted(T) == T.classes \cap {"active", "complete", "failed"} = {}

\* C23: when an advance or an assignment of completed/total on a tracker that
\* is not yet Active, Complete or Failed results in completed > 0 or makes
\* the total present, the tracker is Active when the call returns, with or
\* without a total (so that a tracker stays Pending only while neither has
\* happened).
C23_PendingBecomesActive ==
    [][\A t \in TaskIds :
          (/\ valid'
           /\ lastOp'.op \in ProgressCalls
           /\ lastOp'.task = t
           /\ NotStarted(tk[t])
           /\ \/ tk'[t].completed > 0
              \/ tk[t].total = None /\ tk'[t].total # None) =>
              IsActive(tk'[t])]_vars

\* the window after one more sample: the oldest one leaves when it is full
Pushed(w, smp) ==
    Append(IF Len(w) = SampleKeep + 1 THEN Tail(w) ELSE w, smp)

\* C24: every advance(amount) with amount >= 0, amount 0 included, appends
\* exactly one sample (now, completed), sets last_updated to now, leaves
\* start_time set, and has the owning container recompute its aggregates.
C24_AdvanceRecordsSample ==
    [][\A t \in TaskIds, amount \in Amounts :
          (/\ valid
           /\ lastOp'.op = "advance"
           /\ amount >= 0
           /\ Advance(t, amount)) =>
              /\ tk'[t].samples = Pushed(tk[t].samples, <<now, tk'[t].completed>>)
              /\ tk'[t].last_updated = Some(now)
              /\ tk'[t].start_time # None
              /\ tk[t].st = "child" =>
                    agg' = update_aggregated_values(tk', children', now)]_vars

\* C25: the window of a tracker always holds between 1 and the capacity
\* (SampleKeep + 1, for the program's 1000) samples; a call that changes the
\* window, other than reset(), appends (now, completed) at the end and drops
\* the oldest sample, and only that one, when the window was full.
C25_WindowBoundedFifo ==
    [][\A t \in TaskIds :
          tk'[t].st # "none" =>
              /\ Len(tk'[t].samples) >= 1
              /\ Len(tk'[t].samples) <= SampleKeep + 1
              /\ (/\ tk[t].st # "none"
                  /\ lastOp'.op # "reset"
                  /\ tk'[t].samples # tk[t].samples) =>
                     tk'[t].samples =
                        Pushed(tk[t].samples, <<now, tk'[t].completed>>)]_vars

\* a full window whose seed sample has been evicted by an advance
C25_Witness ==
    \E t \in TaskIds :
        /\ lastOp = [op |-> "advance", task |-> t]
        /\ Len(tk[t].samples) = SampleKeep + 1
        /\ tk[t].samples[1][2] # 0
        /\ tk[t].samples[SampleKeep + 1] = <<now, tk[t].completed>>

\* the rate over a window: the samples within 1 second of the newest one, or
\* the whole window when those are fewer than 2
RefSpeed(w) ==
    IF Len(w) < 2 THEN FZero
    ELSE LET newest == w[Len(w)][1]
             suffix == SelectSeq(w, LAMBDA smp : smp[1] >= newest - 1)
             chosen == IF Len(suffix) < 2 THEN w ELSE suffix
             dt == chosen[Len(chosen)][1] - chosen[1][1]
             dc == chosen[Len(chosen)][2] - chosen[1][2]
         IN  IF dt <= 0 THEN FZero ELSE Frac(dc, dt)

\* C26: whatever the clock is when it is read, Task.speed is the rate over
\* the samples within 1 second of the newest sample's timestamp (the whole
\* window when those are fewer than 2), and 0 for fewer than 2 samples or a
\* time delta <= 0.
C26_SpeedOverNewestSecond ==
    \A t \in TaskIds :
        tk[t].st # "none" => speed(tk[t], now) = RefSpeed(tk[t].samples)

\* the children that have last_updated present and completed > 0
Qualifying == {t \in ChildSet : tk[t].last_updated # None /\ tk[t].completed > 0}

\* the position of a child in insertion order
Position(t) == CHOOSE i \in 1..Len(children) : children[i].task = t

\* C27: Tasks.current_task is the title of the child with the latest
\* last_updated among the children with last_updated present and
\* completed > 0, the earliest-inserted one among several with that latest
\* value, and the container's own title when no child qualifies.
C27_CurrentTaskMostRecent ==
    LET r == current_task(Heap)
    IN  IF Qualifying = {}
        THEN r = ContainerTitle
        ELSE /\ r \in Qualifying
             /\ \A u \in Qualifying :
                   /\ tk[u].last_updated[1] <= tk[r].last_updated[1]
                   /\ tk[u].last_updated[1] = tk[r].last_updated[1] =>
                         Position(r) <= Position(u)

\* two qualifying children with the same last_updated: the first inserted wins
C27_Witness ==
    /\ Len(children) = 2
    /\ Qualifying = ChildSet
    /\ tk[children[1].task].last_updated = tk[children[2].task].last_updated
    /\ current_task(Heap) = children[1].task

\* the trackers stored under a key
Under(ch, key) == {ch[i].task : i \in {j \in 1..Len(ch) : ch[j].key = key}}

\* C28: create_task or add_task with a key that already exists leaves exactly
\* the new tracker under that key, with the aggregates those of a recompute
\* over the new child map and the replaced tracker detached; and no later
\* call on a replaced tracker changes any aggregate field of the container.
C28_ReplaceDetachesOld ==
    [][/\ \A key \in Keys, t \in TaskIds, total \in Totals :
             (/\ HasKey(children, key)
              /\ lastOp'.op \in {"create_task", "add_task"}
              /\ (CreateTask(key, t, total) \/ AddTask(key, t))) =>
                 /\ Under(children', key) = {t}
                 /\ Len(children') = Len(children)
                 /\ agg' = update_aggregated_values(tk', children', now)
                 /\ \A old \in Under(children, key) : tk'[old].st = "detached"
       /\ \A t \in TaskIds :
             (tk[t].st = "detached" /\ lastOp'.task = t) =>
                 /\ agg' = agg
                 /\ children' = children
                 /\ tk'[t].st = "detached"]_vars

\* an advance of the replaced tracker at a later clock value than the
\* replacement: the cached aggregates are not those a recompute would store now
C28_Witness ==
    \E t \in TaskIds :
        /\ valid
        /\ tk[t].st = "detached"
        /\ lastOp = [op |-> "advance", task |-> t]
        /\ tk[t].completed > 0
        /\ Len(children) = 1
        /\ agg.completed = 0
        /\ agg # update_aggregated_values(tk, children, now)

\* C29: removing a key that is in the child map drops it from the map,
\* detaches the tracker that was under it and leaves the aggregates those of
\* a recompute over the remaining children.
C29_RemoveDropsChild ==
    [][\A key \in Keys :
          (/\ HasKey(children, key)
           /\ lastOp'.op = "TypeError"
           /\ DelItem(key)) =>
              /\ ~HasKey(children', key)
              /\ \A old \in Under(children, key) : tk'[old].st = "detached"
              /\ agg' = update_aggregated_values(tk', children', now)]_vars

\* C30: Tasks[key] with a key that is not in the child map fails with a
\* KeyError and with a key that is in it returns the tracker stored under it;
\* either way the child map, the trackers and the aggregates are unchanged.
C30_LookupReadsOnly ==
    [][\A key \in Keys :
          (lastOp'.op \in {"getitem", "KeyError"} /\ GetItem(key)) =>
              /\ children' = children
              /\ tk' = tk
              /\ agg' = agg
              /\ IF HasKey(children, key)
                 THEN lastOp'.op = "getitem" /\ Under(children, key) = {lastOp'.task}
                 ELSE lastOp'.op = "KeyError"]_vars

\* a lookup of an absent key on a container that has a child under another key
C30_Witness ==
    /\ lastOp.op = "KeyError"
    /\ Len(children) = 1
    /\ agg.completed # 0

\* C36: under single-threaded use the newest sample of a tracker's window
\* holds the tracker's current completed, and the timestamps of the window
\* are non-decreasing in window order.
C36_NewestSampleCurrent ==
    \A t \in TaskIds :
        Alive(t) =>
            LET smp == tk[t].samples
            IN  /\ smp # <<>>
                /\ smp[Len(smp)][2] = tk[t].completed
                /\ \A i \in 1..(Len(smp) - 1) : smp[i][1] <= smp[i + 1][1]

\* an advance some seconds after the previous sample, on a full window
C36_Witness ==
    \E t \in TaskIds :
        /\ lastOp = [op |-> "advance", task |-> t]
        /\ Len(tk[t].samples) >= 2
        /\ tk[t].completed # 0
        /\ tk[t].samples[1][1] < tk[t].samples[Len(tk[t].samples)][1]

LifecycleMarkers == {"pending", "active", "complete", "failed"}

\* C37: a tracker carries at most one of the lifecycle markers pending,
\* active, complete, failed at a time.
C37_OneLifecycleMarker ==
    \A t \in TaskIds : Cardinality(tk[t].classes \cap LifecycleMarkers) <= 1

\* a tracker that had finished is entered again as an async context
C37_Witness ==
    \E t \in TaskIds :
        /\ lastOp = [op |-> "aenter", task |-> t]
        /\ tk[t].stop_time # None
        /\ tk[t].classes \cap LifecycleMarkers = {"active"}

\* C38: entering the async context leaves the tracker active (not pending,
\* complete or failed) with start_time set, kept if it was set before;
\* leaving without an exception leaves it complete and finished; leaving
\* with an exception leaves it failed and finished with completed
\* unchanged; __aexit__ never returns a true value.
C38_AsyncContext ==
    [][\A t \in TaskIds :
          /\ (lastOp'.op = "aenter" /\ lastOp'.task = t) =>
                /\ tk'[t].classes \cap LifecycleMarkers = {"active"}
                /\ tk'[t].start_time =
                       IF tk[t].start_time = None THEN Some(now)
                       ELSE tk[t].start_time
          /\ \A exc \in BOOLEAN :
                (lastOp'.op = "aexit" /\ Exit(t, exc)) =>
                    /\ ~aexit_result(exc)
                    /\ finished(tk'[t])
                    /\ ~exc => IsComplete(tk'[t]) /\ ~IsFailed(tk'[t])
                    /\ exc => /\ IsFailed(tk'[t])
                              /\ ~IsComplete(tk'[t])
                              /\ tk'[t].completed = tk[t].completed]_vars

\* a block that was entered, made progress and raised
C38_Witness ==
    \E t \in TaskIds :
        /\ lastOp = [op |-> "aexit", task |-> t]
        /\ IsFailed(tk[t])
        /\ tk[t].total = None
        /\ tk[t].start_time # None
        /\ tk[t].completed # 0

\* the animation loops that are alive and not cancelled
LiveLoops == {i \in 1..Len(loops) : LoopAlive(loops[i]) /\ ~loops[i].cancelled}

\* C31: whenever the tracker a spinner is spinning for is complete or failed
\* (by complete(), fail() or progress reaching its total), the spinner
\* eventually is not spinning and has no live animation loop.
C31_SpinnerStops ==
    (/\ valid
     /\ sp.task # 0
     /\ sp.is_spinning
     /\ IF sp.task # 0 THEN is_complete(tk[sp.task]) ELSE FALSE)
        ~> (~valid \/ (~sp.is_spinning /\ LiveLoops = {}))

\* C35: _is_spinning is true exactly when one animation loop is alive and
\* not cancelled, and there are never two such loops.
C35_SpinningIffOneLoop ==
    valid =>
        /\ Cardinality(LiveLoops) <= 1
        /\ sp.is_spinning <=> (Cardinality(LiveLoops) = 1)

\* C32: a file change never ends the running app and leaves the supervisor
\* waiting in the crashed state or exited: an app process that restart_app
\* terminated is followed by a new start.
C32_KillMeansRestart ==
    (rn.killed /\ ~rn.interrupted) => rn.pc \notin {"crashed", "exited"}

\* C33: restart_app never calls terminate() on an absent process, so it
\* lets no exception escape.
C33_NoTerminateOnNone == rn.error = "none"

\* C34: when the app exits with code 0 and no file change was observed
\* since that app process was started, the supervisor stops without
\* starting the app again.
C34_CleanExitStops ==
    [][(/\ rn.pc = "check"
        /\ rn'.pc # "check"
        /\ rn.exit_code = 0
        /\ ~rn.changed
        /\ ~rn'.interrupted) => rn'.pc = "exited"]_vars

====
